---- MODULE Spec2Model ----
(***************************************************************************)
(* Model of the ST-Link probe driver: the USB transport                    *)
(* (src/probes/stlink/usb_interface.rs) and the protocol engine            *)
(* (src/probes/stlink/stlink.rs).                                          *)
(*                                                                         *)
(* Every method is one action.  The device's answers to the bulk transfers *)
(* a method performs are inputs of the action.  A byte is a number 0..255; *)
(* the opcodes, mode values and status codes of constants.rs, which is not *)
(* part of the sources at hand, are kept as names (strings): only their    *)
(* identity is used, never a numeric value.                                *)
(***************************************************************************)
EXTENDS Integers, Sequences, FiniteSets, TLC

VARIABLES
    pid,            \* product id of the device the transport was built for
    pc,             \* "ready" | "returned" | "flush_read" | "flush_check" | "aborted"
    caller,         \* who runs the pending Transport open: "device" | "stlink"
    device_handle,  \* STLinkUSBDevice.device_handle is Some
    claimed,        \* interface 0 is claimed on the held handle
    hw_version,     \* STLink.hw_version
    jtag_version,   \* STLink.jtag_version
    protocol,       \* STLink.protocol
    stale,          \* packets still queued in the device's IN endpoint
    flushRes,       \* what the last read() of flush_rx returned
    op,             \* the operation performed last and its arguments
    result,         \* what it returned
    log,            \* the bulk transfers it performed, in order
    steps           \* the internal steps it performed and their results

vars == <<pid, pc, caller, device_handle, claimed, hw_version, jtag_version,
          protocol, stale, flushRes, op, result, log, steps>>

-----------------------------------------------------------------------------
(* Bounds of the model *)

\* most packets left over in the IN endpoint when the transport is opened
MaxStale == 2
\* largest number of full chunks in a modelled memory transfer
MaxBlocks == 2

-----------------------------------------------------------------------------
(* Program constants *)

CMD_LEN == 16
MAXIMUM_TRANSFER_SIZE == 1024
MIN_JTAG_VERSION == 24
MIN_JTAG_VERSION_16BIT_XFER == 26
MIN_JTAG_VERSION_MULTI_AP == 28
HW_VERSION_SHIFT == 12
HW_VERSION_MASK == 15
JTAG_VERSION_SHIFT == 6
JTAG_VERSION_MASK == 63
DP_PORT == 65535

U8  == 2^8
U16 == 2^16

\* commands::* and Status::* of constants.rs, by name
GET_VERSION == "GET_VERSION"
GET_VERSION_EXT == "GET_VERSION_EXT"
GET_TARGET_VOLTAGE == "GET_TARGET_VOLTAGE"
GET_CURRENT_MODE == "GET_CURRENT_MODE"
DEV_DFU_MODE == "DEV_DFU_MODE"
DEV_JTAG_MODE == "DEV_JTAG_MODE"
DEV_SWIM_MODE == "DEV_SWIM_MODE"
DFU_COMMAND == "DFU_COMMAND"
DFU_EXIT == "DFU_EXIT"
JTAG_COMMAND == "JTAG_COMMAND"
JTAG_EXIT == "JTAG_EXIT"
SWIM_COMMAND == "SWIM_COMMAND"
SWIM_EXIT == "SWIM_EXIT"
JTAG_ENTER2 == "JTAG_ENTER2"
JTAG_ENTER_SWD == "JTAG_ENTER_SWD"
JTAG_ENTER_JTAG_NO_CORE_RESET == "JTAG_ENTER_JTAG_NO_CORE_RESET"
JTAG_INIT_AP == "JTAG_INIT_AP"
JTAG_AP_NO_CORE == "JTAG_AP_NO_CORE"
JTAG_CLOSE_AP_DBG == "JTAG_CLOSE_AP_DBG"
JTAG_GETLASTRWSTATUS2 == "JTAG_GETLASTRWSTATUS2"
JTAG_READMEM_32BIT == "JTAG_READMEM_32BIT"
JTAG_WRITEMEM_32BIT == "JTAG_WRITEMEM_32BIT"
JTAG_READMEM_16BIT == "JTAG_READMEM_16BIT"
JTAG_WRITEMEM_16BIT == "JTAG_WRITEMEM_16BIT"
JTAG_READMEM_8BIT == "JTAG_READMEM_8BIT"
JTAG_WRITEMEM_8BIT == "JTAG_WRITEMEM_8BIT"
JTAG_READ_DAP_REG == "JTAG_READ_DAP_REG"
JTAG_WRITE_DAP_REG == "JTAG_WRITE_DAP_REG"
JtagOk == "JtagOk"
JtagUnknownError == "JtagUnknownError"
SwdApFault == "SwdApFault"
SwdDpFault == "SwdDpFault"

\* enum WireProtocol
WireProtocol == {"Jtag", "Swd"}

-----------------------------------------------------------------------------
(* Integer helpers, with the widths of the code *)

Min(a, b) == IF a < b THEN a ELSE b

\* x >> n on an unsigned value
Shr(x, n) == x \div (2^n)

\* a | b on values of w bits
RECURSIVE BitOr(_, _, _)
BitOr(a, b, w) ==
    IF w = 0 THEN 0
    ELSE (IF (a % 2 = 1) \/ (b % 2 = 1) THEN 1 ELSE 0)
         + 2 * BitOr(a \div 2, b \div 2, w - 1)

\* a & b on values of w bits
RECURSIVE BitAnd(_, _, _)
BitAnd(a, b, w) ==
    IF w = 0 THEN 0
    ELSE (IF (a % 2 = 1) /\ (b % 2 = 1) THEN 1 ELSE 0)
         + 2 * BitAnd(a \div 2, b \div 2, w - 1)

\* A u32 is kept as its two 16-bit halves <<high, low>>: TLC's integers
\* end at 2^31 - 1.  W32(n) is the u32 of a number below 2^31.
W32(n) == <<n \div U16, n % U16>>
\* the number of a u32 below 2^31
Num(w) == w[1] * U16 + w[2]
\* a + b on u32: the wrapped sum, and whether it overflowed
Add32(a, b) ==
    LET lo == a[2] + b[2]
        hi == a[1] + b[1] + (lo \div U16)
    IN  [v |-> <<hi % U16, lo % U16>>, overflow |-> hi >= U16]
\* a - b on u32: the wrapped difference, and whether it went below zero
Sub32(a, b) ==
    LET lo == a[2] - b[2]
        hi == a[1] - b[1] - (IF lo < 0 THEN 1 ELSE 0)
    IN  [v |-> <<hi % U16, lo % U16>>, overflow |-> hi < 0]
Lt32(a, b) == a[1] < b[1] \/ (a[1] = b[1] /\ a[2] < b[2])
\* (x >> 8 * i) as u8 of a u32, i in 0..3
Byte32(w, i) ==
    IF i = 0 THEN w[2] % U8 ELSE IF i = 1 THEN w[2] \div U8
    ELSE IF i = 2 THEN w[1] % U8 ELSE w[1] \div U8

\* impl BytesTo for &[u8]: little-endian decoding; the slice is indexed at 0..3
\* (0..1), so a shorter slice is an out-of-bounds index
to_u32_panics(s) == Len(s) < 4
to_u32_be(s) == <<BitOr(s[1] * 2^8, s[2], 16), BitOr(s[3] * 2^8, s[4], 16)>>
to_u32(s) == <<BitOr(s[4] * 2^8, s[3], 16), BitOr(s[2] * 2^8, s[1], 16)>>

to_u16_panics(s) == Len(s) < 2
to_u16_be(s) == IF s[1] = 0 THEN s[2] ELSE BitOr(s[1] * 2^8, s[2], 16)
\* (self[1] << 8) | self[0]; with a zero high byte the value is the low byte,
\* which may then be a named code
to_u16(s) == IF s[2] = 0 THEN s[1] ELSE BitOr(s[2] * 2^8, s[1], 16)

Zeros(n) == [i \in 1..n |-> 0]

-----------------------------------------------------------------------------
(* Results *)

\* a Result: Ok / Err(tag) with up to two numbers and, for reads, the bytes
\* (a is a u32, b a u16)
Res(tag, a, b, v) == [tag |-> tag, a |-> a, b |-> b, v |-> v]
Ok == Res("Ok", W32(0), 0, <<>>)
Err(tag) == Res(tag, W32(0), 0, <<>>)
\* a panic (unwrap on None, index out of bounds, arithmetic overflow)
Panic == Res("panic", W32(0), 0, <<>>)
\* a method that returns (): nothing is reported to the caller
Unit == Res("Unit", W32(0), 0, <<>>)
\* STLinkError::USB(e)
USB(e) == Res("USB", W32(0), 0, <<e>>)

UsbErrors == {"Io", "NotFound", "Timeout", "NoDevice"}

-----------------------------------------------------------------------------
(* USB transport: usb_interface.rs *)

\* lazy_static USB_PID_EP_MAP: product id -> (version name, out, in, swv)
STLinkInfo(name, o, i, t) ==
    [version_name |-> name, out_ep |-> o, in_ep |-> i, swv_ep |-> t]

USB_PID_EP_MAP ==
    (14152 :> STLinkInfo("V2", 2, 129, 131))        \* 0x3748
    @@ (14155 :> STLinkInfo("V2-1", 1, 129, 130))   \* 0x374b
    @@ (14154 :> STLinkInfo("V2-1", 1, 129, 130))   \* 0x374a
    @@ (14146 :> STLinkInfo("V2-1", 1, 129, 130))   \* 0x3742
    @@ (14158 :> STLinkInfo("V3", 1, 129, 130))     \* 0x374e
    @@ (14159 :> STLinkInfo("V3", 1, 129, 130))     \* 0x374f
    @@ (14163 :> STLinkInfo("V3", 1, 129, 130))     \* 0x3753

\* STLinkUSBDevice::new: the endpoint fields are taken from the table
Endpoints(p) == USB_PID_EP_MAP[p]

\* one bulk transfer on the wire
Xfer(phase, ep, data, len) == [phase |-> phase, ep |-> ep, data |-> data, len |-> len]

\* the command phase's frame: cmd followed by CMD_LEN - cmd.len() zero bytes
PadNoFill(cmd) == cmd
Pad(cmd) == cmd \o Zeros(CMD_LEN - Len(cmd))

\* what the device does with one write(): r.fail names the phase that goes wrong
\* ("none", "cmd_err", "cmd_short", "out_err", "out_short", "in_err", "in_short"),
\* r.err the libusb error of an *_err, r.data the bytes of the data-in phase
Reply(data) == [fail |-> "none", err |-> "Timeout", data |-> data]
Fail(f) == [fail |-> f, err |-> "Timeout", data |-> <<>>]

WriteOut(res, xfers, data) == [res |-> res, xfers |-> xfers, data |-> data]

\* write() with a failed data-out phase passed over
write_past_out(handle, eps, cmd, write_data, read_len, r) ==
    LET frame == Pad(cmd)
        x1 == <<Xfer("cmd", eps.out_ep, frame, CMD_LEN)>>
        x2 == IF Len(write_data) > 0
              THEN x1 \o <<Xfer("out", eps.out_ep, write_data, Len(write_data))>>
              ELSE x1
        x3 == IF read_len > 0
              THEN x2 \o <<Xfer("in", eps.in_ep, r.data, read_len)>>
              ELSE x2
    IN  IF Len(cmd) > CMD_LEN THEN WriteOut("panic", <<>>, <<>>)
        ELSE IF ~handle THEN WriteOut("panic", <<>>, <<>>)
        ELSE IF r.fail = "cmd_err" THEN WriteOut(r.err, x1, <<>>)
        ELSE IF r.fail = "cmd_short" THEN WriteOut("Io", x1, <<>>)
        ELSE IF read_len > 0 /\ r.fail = "in_err" THEN WriteOut(r.err, x3, <<>>)
        ELSE IF read_len > 0 /\ (r.fail = "in_short" \/ Len(r.data) # read_len)
             THEN WriteOut("Io", x3, <<>>)
        ELSE WriteOut("Ok", x3, IF read_len > 0 THEN r.data ELSE <<>>)

\* STLinkUSBDevice::write.  res is "Ok", a libusb error, or "panic": the unwrap
\* of a missing device handle, or a command longer than CMD_LEN, for which the
\* bound CMD_LEN - cmd.len() of the padding loop goes below zero (a panic with
\* overflow checks, an endless run of pushes that exhausts memory without)
write(handle, eps, cmd, write_data, read_len, r) ==
    LET frame == Pad(cmd)
        x1 == <<Xfer("cmd", eps.out_ep, frame, CMD_LEN)>>
        x2 == IF Len(write_data) > 0
              THEN x1 \o <<Xfer("out", eps.out_ep, write_data, Len(write_data))>>
              ELSE x1
        x3 == IF read_len > 0
              THEN x2 \o <<Xfer("in", eps.in_ep, r.data, read_len)>>
              ELSE x2
    IN  IF Len(cmd) > CMD_LEN THEN WriteOut("panic", <<>>, <<>>)
        ELSE IF ~handle THEN WriteOut("panic", <<>>, <<>>)
        ELSE IF r.fail = "cmd_err" THEN WriteOut(r.err, x1, <<>>)
        ELSE IF r.fail = "cmd_short" THEN WriteOut("Io", x1, <<>>)
        ELSE IF Len(write_data) > 0 /\ r.fail = "out_err" THEN WriteOut(r.err, x2, <<>>)
        ELSE IF Len(write_data) > 0 /\ r.fail = "out_short" THEN WriteOut("Io", x2, <<>>)
        ELSE IF read_len > 0 /\ r.fail = "in_err" THEN WriteOut(r.err, x3, <<>>)
        ELSE IF read_len > 0 /\ (r.fail = "in_short" \/ Len(r.data) # read_len)
             THEN WriteOut("Io", x3, <<>>)
        ELSE WriteOut("Ok", x3, IF read_len > 0 THEN r.data ELSE <<>>)

\* STLinkUSBDevice::read: the bulk read's result is dropped and Ok(buf) returned,
\* whatever the device did (dev is "data", "Timeout" or another libusb error)
read(handle, dev) == "Ok"

\* the state the driver keeps: the transport's handle and the engine's fields
St(h, c, hw, jv, pr) ==
    [handle |-> h, claimed |-> c, hw |-> hw, jtag |-> jv, proto |-> pr]

\* STLinkUSBDevice::open up to flush_rx.  d says what the device does:
\* d.open (device.open() succeeds), d.claim (claim_interface succeeds),
\* d.config, d.descr (the descriptor reads succeed), d.eps (the endpoint
\* addresses of the first interface descriptor).  res "flush" means flush_rx
\* has been entered.
transport_open(s, p, d) ==
    IF ~d.open THEN [s |-> s, res |-> "NoDevice"]
    ELSE LET s1 == [s EXCEPT !.handle = TRUE, !.claimed = d.claim]
             info == USB_PID_EP_MAP[p]
             endpoint_out == info.out_ep \in d.eps
             endpoint_in == info.in_ep \in d.eps
             endpoint_swv == info.swv_ep \in d.eps
         IN  IF ~d.config THEN [s |-> s1, res |-> "Io"]
             ELSE IF ~d.descr THEN [s |-> s1, res |-> "Io"]
             ELSE IF ~endpoint_out THEN [s |-> s1, res |-> "NotFound"]
             ELSE IF ~endpoint_in THEN [s |-> s1, res |-> "NotFound"]
             ELSE IF ~endpoint_swv THEN [s |-> s1, res |-> "NotFound"]
             ELSE [s |-> s1, res |-> "flush"]

\* STLinkUSBDevice::close
transport_close(s) == [s EXCEPT !.handle = FALSE, !.claimed = FALSE]

-----------------------------------------------------------------------------
(* Protocol engine: stlink.rs *)

\* what an engine method did: new state, result, transfers, internal steps
Out(s, res, xfers, st) == [s |-> s, res |-> res, log |-> xfers, steps |-> st]

Step(name, tag) == [name |-> name, res |-> tag]

\* .map_err(|e| STLinkError::USB(e)) on a write()'s result
WRes(w) == IF w.res = "Ok" THEN Ok ELSE IF w.res = "panic" THEN Panic ELSE USB(w.res)

\* STLink::check_status
check_status(status) ==
    IF status[1] # JtagOk THEN Err("UnknownError") ELSE Ok

\* enter_idle with the DFU exit sent in JTAG mode
enter_idle_dfu_exit(s, eps, r1, r2) ==
    LET w1 == write(s.handle, eps, <<GET_CURRENT_MODE>>, <<>>, 2, r1)
        mode == w1.data[1]
        exit == IF mode = DEV_DFU_MODE THEN <<DFU_COMMAND, DFU_EXIT>>
                ELSE IF mode = DEV_JTAG_MODE THEN <<DFU_COMMAND, DFU_EXIT>>
                ELSE <<SWIM_COMMAND, SWIM_EXIT>>
        w2 == write(s.handle, eps, exit, <<>>, 0, r2)
    IN  IF w1.res # "Ok" THEN Out(s, WRes(w1), w1.xfers, <<>>)
        ELSE IF mode = DEV_DFU_MODE \/ mode = DEV_JTAG_MODE \/ mode = DEV_SWIM_MODE
             THEN Out(s, WRes(w2), w1.xfers \o w2.xfers, <<>>)
        ELSE Out(s, Err("UnknownMode"), w1.xfers, <<>>)

\* STLink::enter_idle
enter_idle(s, eps, r1, r2) ==
    LET w1 == write(s.handle, eps, <<GET_CURRENT_MODE>>, <<>>, 2, r1)
        mode == w1.data[1]
        exit == IF mode = DEV_DFU_MODE THEN <<DFU_COMMAND, DFU_EXIT>>
                ELSE IF mode = DEV_JTAG_MODE THEN <<JTAG_COMMAND, JTAG_EXIT>>
                ELSE <<SWIM_COMMAND, SWIM_EXIT>>
        w2 == write(s.handle, eps, exit, <<>>, 0, r2)
    IN  IF w1.res # "Ok" THEN Out(s, WRes(w1), w1.xfers, <<>>)
        ELSE IF mode = DEV_DFU_MODE \/ mode = DEV_JTAG_MODE \/ mode = DEV_SWIM_MODE
             THEN Out(s, WRes(w2), w1.xfers \o w2.xfers, <<>>)
        ELSE Out(s, Err("UnknownMode"), w1.xfers, <<>>)

\* get_version: "For STLinkV3 we must use the extended get version command"
NeedsExtOff(hw) == hw >= 2
NeedsExt(hw) == hw >= 3

\* get_version: "Check versions"
VersionVerdict(jv) ==
    IF jv = W32(0) THEN Err("JTAGNotSupportedOnProbe")
    ELSE IF Lt32(jv, W32(MIN_JTAG_VERSION)) THEN Err("ProbeFirmwareOutdated")
    ELSE Ok

\* STLink::get_version
get_version(s, eps, r1, r2) ==
    LET w1 == write(s.handle, eps, <<GET_VERSION>>, <<>>, 12, r1)
        version == BitOr(w1.data[2] * 2^8, w1.data[1], 16)
        hw == BitAnd(Shr(version, HW_VERSION_SHIFT) % U8, HW_VERSION_MASK, 8)
        jv == W32(BitAnd(Shr(version, JTAG_VERSION_SHIFT), JTAG_VERSION_MASK, 16))
        s1 == [s EXCEPT !.hw = hw, !.jtag = jv]
        w2 == write(s.handle, eps, <<GET_VERSION_EXT>>, <<>>, 12, r2)
        s2 == IF NeedsExt(hw) THEN [s1 EXCEPT !.jtag = to_u32(SubSeq(w2.data, 1, 4))] ELSE s1
        x2 == IF NeedsExt(hw) THEN w1.xfers \o w2.xfers ELSE w1.xfers
    IN  IF w1.res # "Ok" THEN Out(s, WRes(w1), w1.xfers, <<>>)
        ELSE IF NeedsExt(hw) /\ w2.res # "Ok" THEN Out(s1, WRes(w2), x2, <<>>)
        ELSE Out(s2, VersionVerdict(s2.jtag), x2, <<>>)

\* (2.0 * a1 * 1.2 / a0) as u32: the quotient, truncated (readings below 2^24)
Voltage(a0, a1) == W32((24 * Num(a1)) \div (10 * Num(a0)))

\* STLink::get_target_voltage
get_target_voltage(s, eps, r) ==
    LET w == write(s.handle, eps, <<GET_TARGET_VOLTAGE>>, <<>>, 8, r)
        s0 == SubSeq(w.data, 1, 4)      \* &buf[0..4]
        s1 == SubSeq(w.data, 6, 8)      \* &buf[5..8]
        a0 == to_u32(s0)
        a1 == to_u32(s1)
    IN  IF w.res # "Ok" THEN Out(s, WRes(w), w.xfers, <<>>)
        ELSE IF to_u32_panics(s0) \/ to_u32_panics(s1) THEN Out(s, Panic, w.xfers, <<>>)
        ELSE IF a0 # W32(0) THEN Out(s, Res("Ok", Voltage(a0, a1), 0, <<>>), w.xfers, <<>>)
        ELSE Out(s, Err("VoltageDivisionByZero"), w.xfers, <<>>)

\* the match of enter_debug: the parameter of JTAG_ENTER2
EnterParam(p) == IF p = "Jtag" THEN JTAG_ENTER_SWD ELSE JTAG_ENTER_JTAG_NO_CORE_RESET

\* STLink::enter_debug, once enter_idle has run and the mode-entry command has
\* been answered (w).  The result of enter_idle is dropped; a panic in it
\* unwinds through enter_debug.
debug_after_idle(s, p, idle, w) ==
    LET st == <<Step("enter_idle", idle.res.tag)>>
        xs == idle.log \o w.xfers
        s1 == [s EXCEPT !.proto = p]
    IN  IF idle.res.tag = "panic" THEN Out(s, Panic, idle.log, st)
        ELSE IF w.res # "Ok" THEN Out(s, WRes(w), xs, st)
        ELSE Out(s1, check_status(w.data), xs, st)

\* STLink::enter_debug
enter_debug(s, eps, p, r1, r2, r3) ==
    debug_after_idle(s, p, enter_idle(s, eps, r1, r2),
        write(s.handle, eps, <<JTAG_COMMAND, JTAG_ENTER2, EnterParam(p), 0>>, <<>>, 2, r3))

\* STLink::open_ap
open_ap(s, eps, apsel, r) ==
    LET w == write(s.handle, eps, <<JTAG_COMMAND, JTAG_INIT_AP, apsel, JTAG_AP_NO_CORE>>, <<>>, 2, r)
    IN  IF Lt32(s.jtag, W32(MIN_JTAG_VERSION_MULTI_AP))
        THEN Out(s, Err("JTagDoesNotSupportMultipleAP"), <<>>, <<>>)
        ELSE IF w.res # "Ok" THEN Out(s, WRes(w), w.xfers, <<>>)
        ELSE Out(s, check_status(w.data), w.xfers, <<>>)

\* STLink::close_ap
close_ap(s, eps, apsel, r) ==
    LET w == write(s.handle, eps, <<JTAG_COMMAND, JTAG_CLOSE_AP_DBG, apsel>>, <<>>, 2, r)
    IN  IF Lt32(s.jtag, W32(MIN_JTAG_VERSION_MULTI_AP))
        THEN Out(s, Err("JTagDoesNotSupportMultipleAP"), <<>>, <<>>)
        ELSE IF w.res # "Ok" THEN Out(s, WRes(w), w.xfers, <<>>)
        ELSE Out(s, check_status(w.data), w.xfers, <<>>)

\* STLink::clear_sticky_error: a stub that returns Ok
clear_sticky_error(s) == Ok

-----------------------------------------------------------------------------
(* Memory transfers: stlink.rs, read_mem / write_mem and their wrappers *)

\* the command of one chunk: every address and size byte is or-ed with 0xFF
MemCmd(memcmd, addr, transfer_size, apsel) ==
    << JTAG_COMMAND,
       memcmd,
       BitOr(Byte32(addr, 0), 255, 8),
       BitOr(Byte32(addr, 1), 255, 8),
       BitOr(Byte32(addr, 2), 255, 8),
       BitOr(Byte32(addr, 3), 255, 8),
       BitOr(Shr(transfer_size, 0) % U8, 255, 8),
       BitOr(Shr(transfer_size, 8) % U8, 255, 8),
       apsel >>

\* the command that asks for the status of the last transfer
StatusCmd == <<JTAG_COMMAND, JTAG_GETLASTRWSTATUS2>>

\* the three status codes the check treats as a fault
IsFaultStatusNoDp(status) ==
    status = JtagUnknownError \/ status = SwdApFault
IsFaultStatus(status) ==
    status = JtagUnknownError \/ status = SwdApFault \/ status = SwdDpFault

\* TransferFault(fault_address, (transfer_size - (fault_address - addr)) as u16),
\* with addr the loop's address when the status is checked.  A u32 subtraction
\* that would go below zero panics when overflow checks are compiled in (chk)
\* and wraps otherwise.
TransferFault(fault_address, transfer_size, addr, chk) ==
    LET d == Sub32(fault_address, addr)
        c == Sub32(W32(transfer_size), d.v)
    IN  IF chk /\ (d.overflow \/ c.overflow) THEN Panic
        ELSE Res("TransferFault", fault_address, c.v[2], <<>>)

\* the status check at the end of each chunk: "continue" when the loop goes on
StatusCheckOkContinues(buf, transfer_size, addr, chk) ==
    LET status == to_u16(SubSeq(buf, 1, 2))
        fault_address == to_u32(SubSeq(buf, 5, 8))
    IN  IF IsFaultStatus(status)
        THEN TransferFault(fault_address, transfer_size, addr, chk)
        ELSE Res("continue", W32(0), 0, <<>>)
StatusCheck(buf, transfer_size, addr, chk) ==
    LET status == to_u16(SubSeq(buf, 1, 2))
        fault_address == to_u32(SubSeq(buf, 5, 8))
    IN  IF IsFaultStatus(status)
        THEN TransferFault(fault_address, transfer_size, addr, chk)
        ELSE IF status = JtagOk THEN Err("UnknownError")
        ELSE Res("continue", W32(0), 0, <<>>)

\* the steps of a status check that ended in res: the sticky-error clear comes
\* before the TransferFault is built
FaultSteps(s, buf) ==
    IF IsFaultStatus(to_u16(SubSeq(buf, 1, 2)))
    THEN <<Step("clear_sticky_error", clear_sticky_error(s).tag)>>
    ELSE <<>>

\* what the device does during the i-th chunk of a transfer: sc.at is the chunk
\* where it departs from the plain answer (0: nowhere), sc.x its answer to the
\* chunk command there, sc.q its answer to the status query there
Plain == Reply(<<"SwdApWait", 0, 0, 0, 0, 0, 0, 0, 0, 0, 0, 0>>)
ChunkX(sc, i) == IF i = sc.at THEN sc.x ELSE Reply(<<>>)
ChunkQ(sc, i) == IF i = sc.at THEN sc.q ELSE Plain

\* addr += transfer_size on a u32
AddOverflows(addr, n) == Add32(addr, W32(n)).overflow

\* STLink::read_mem, from its i-th chunk on.  buf is an empty Vec (only its
\* capacity is set), so the data-in phase is asked for 0 bytes.
RECURSIVE read_mem_from(_, _, _, _, _, _, _, _, _, _, _, _)
read_mem_from(s, eps, addr, size, memcmd, max, apsel, sc, chk, i, acc, xs) ==
    IF ~(size > 0) THEN Out(s, Res("Ok", W32(0), 0, acc), xs, <<>>)
    ELSE
    LET transfer_size == Min(size, max)
        buf == <<>>
        w == write(s.handle, eps, MemCmd(memcmd, addr, transfer_size, apsel),
                   <<>>, Len(buf), ChunkX(sc, i))
        acc1 == acc \o w.data
        addr1 == Add32(addr, W32(transfer_size)).v
        size1 == size - transfer_size
        q == write(s.handle, eps, StatusCmd, <<>>, 12, ChunkQ(sc, i))
        xs1 == xs \o w.xfers
        xs2 == xs1 \o q.xfers
        chkres == StatusCheck(q.data, transfer_size, addr1, chk)
    IN  IF w.res # "Ok" THEN Out(s, WRes(w), xs1, <<>>)
        ELSE IF chk /\ AddOverflows(addr, transfer_size) THEN Out(s, Panic, xs1, <<>>)
        ELSE IF q.res # "Ok" THEN Out(s, WRes(q), xs2, <<>>)
        ELSE IF chkres.tag # "continue" THEN Out(s, chkres, xs2, FaultSteps(s, q.data))
        ELSE read_mem_from(s, eps, addr1, size1, memcmd, max, apsel, sc, chk, i + 1, acc1, xs2)

\* STLink::read_mem
read_mem(s, eps, addr, size, memcmd, max, apsel, sc, chk) ==
    read_mem_from(s, eps, addr, size, memcmd, max, apsel, sc, chk, 1, <<>>, <<>>)

\* STLink::write_mem, from its i-th chunk on
RECURSIVE write_mem_from(_, _, _, _, _, _, _, _, _, _, _)
write_mem_from(s, eps, addr, data, memcmd, max, apsel, sc, chk, i, xs) ==
    IF ~(Len(data) > 0) THEN Out(s, Ok, xs, <<>>)
    ELSE
    LET transfer_size == Min(Len(data), max)
        transfer_data == SubSeq(data, 1, transfer_size)
        w == write(s.handle, eps, MemCmd(memcmd, addr, transfer_size, apsel),
                   transfer_data, 0, ChunkX(sc, i))
        addr1 == Add32(addr, W32(transfer_size)).v
        data1 == SubSeq(data, transfer_size + 1, Len(data))
        q == write(s.handle, eps, StatusCmd, <<>>, 12, ChunkQ(sc, i))
        xs1 == xs \o w.xfers
        xs2 == xs1 \o q.xfers
        chkres == StatusCheck(q.data, transfer_size, addr1, chk)
    IN  IF w.res # "Ok" THEN Out(s, WRes(w), xs1, <<>>)
        ELSE IF chk /\ AddOverflows(addr, transfer_size) THEN Out(s, Panic, xs1, <<>>)
        ELSE IF q.res # "Ok" THEN Out(s, WRes(q), xs2, <<>>)
        ELSE IF chkres.tag # "continue" THEN Out(s, chkres, xs2, FaultSteps(s, q.data))
        ELSE write_mem_from(s, eps, addr1, data1, memcmd, max, apsel, sc, chk, i + 1, xs2)

\* STLink::write_mem
write_mem(s, eps, addr, data, memcmd, max, apsel, sc, chk) ==
    write_mem_from(s, eps, addr, data, memcmd, max, apsel, sc, chk, 1, <<>>)

\* (addr & m) == 0 && (size & m) == 0, m = 0x3 or 0x1
AlignedAddrOnly(addr, size, m) == BitAnd(addr[2], m, 16) = 0
Aligned(addr, size, m) == BitAnd(addr[2], m, 16) = 0 /\ BitAnd(size, m, 16) = 0

\* STLink::read_mem32
read_mem32(s, eps, addr, size, apsel, sc, chk) ==
    IF Aligned(addr, size, 3)
    THEN read_mem(s, eps, addr, size, JTAG_READMEM_32BIT, MAXIMUM_TRANSFER_SIZE, apsel, sc, chk)
    ELSE Out(s, Err("DataAlignmentError"), <<>>, <<>>)

\* STLink::write_mem32
write_mem32(s, eps, addr, data, apsel, sc, chk) ==
    IF Aligned(addr, Len(data), 3)
    THEN write_mem(s, eps, addr, data, JTAG_WRITEMEM_32BIT, MAXIMUM_TRANSFER_SIZE, apsel, sc, chk)
    ELSE Out(s, Err("DataAlignmentError"), <<>>, <<>>)

\* the version gate of the 16-bit transfers
No16BitOff(s) == Lt32(s.jtag, W32(MIN_JTAG_VERSION))
No16Bit(s) == Lt32(s.jtag, W32(MIN_JTAG_VERSION_16BIT_XFER))

\* STLink::read_mem16
read_mem16(s, eps, addr, size, apsel, sc, chk) ==
    IF Aligned(addr, size, 1)
    THEN IF No16Bit(s)
         THEN Out(s, Err("Access16BitNotSupported"), <<>>, <<>>)
         ELSE read_mem(s, eps, addr, size, JTAG_READMEM_16BIT, MAXIMUM_TRANSFER_SIZE, apsel, sc, chk)
    ELSE Out(s, Err("DataAlignmentError"), <<>>, <<>>)

\* STLink::write_mem16
write_mem16(s, eps, addr, data, apsel, sc, chk) ==
    IF Aligned(addr, Len(data), 1)
    THEN IF No16Bit(s)
         THEN Out(s, Err("Access16BitNotSupported"), <<>>, <<>>)
         ELSE write_mem(s, eps, addr, data, JTAG_WRITEMEM_16BIT, MAXIMUM_TRANSFER_SIZE, apsel, sc, chk)
    ELSE Out(s, Err("DataAlignmentError"), <<>>, <<>>)

\* STLink::read_mem8
read_mem8(s, eps, addr, size, apsel, sc, chk) ==
    read_mem(s, eps, addr, size, JTAG_READMEM_8BIT, MAXIMUM_TRANSFER_SIZE, apsel, sc, chk)

\* STLink::write_mem8
write_mem8(s, eps, addr, data, apsel, sc, chk) ==
    write_mem(s, eps, addr, data, JTAG_WRITEMEM_8BIT, MAXIMUM_TRANSFER_SIZE, apsel, sc, chk)

-----------------------------------------------------------------------------
(* Debug-port / access-port registers: read_dap_register, write_dap_register *)

\* (addr & 0xf0) == 0 || port != Self::DP_PORT
DpAddrLowNibble(port, addr) == BitAnd(addr[2], 15, 16) = 0 \/ port # DP_PORT
DpAddrOk(port, addr) == BitAnd(addr[2], 240, 16) = 0 \/ port # DP_PORT

\* (addr >> 16) == 0
AddrIs16Bit(addr) == addr[1] = 0

\* the port and address fields of both commands
DapFields(port, addr) ==
    << BitAnd(port, 255, 16),
       BitAnd(Shr(port, 8), 255, 16),
       BitAnd(addr[2], 255, 16),
       BitAnd(Shr(addr[2], 8), 255, 16) >>

\* the value field of the write command: (value >> 8 * i) & 0xFF, i = 0..3
ValueFields(value) ==
    << BitAnd(value[2], 255, 16),
       BitAnd(Shr(value[2], 8), 255, 16),
       BitAnd(value[1], 255, 16),
       BitAnd(Shr(value[1], 8), 255, 16) >>

\* STLink::read_dap_register.  The value returned is (&buf[0..4]).to_u32(); its
\* lowest byte is the status byte that has just been checked, a code of
\* constants.rs, so the four bytes are kept as they are.
read_dap_register(s, eps, port, addr, r) ==
    LET cmd == <<JTAG_COMMAND, JTAG_READ_DAP_REG>> \o DapFields(port, addr)
        w == write(s.handle, eps, cmd, <<>>, 8, r)
        st == check_status(w.data)
    IN  IF DpAddrOk(port, addr)
        THEN IF AddrIs16Bit(addr)
             THEN IF w.res # "Ok" THEN Out(s, WRes(w), w.xfers, <<>>)
                  ELSE IF st.tag # "Ok" THEN Out(s, st, w.xfers, <<>>)
                  ELSE Out(s, Res("Ok", W32(0), 0, SubSeq(w.data, 1, 4)), w.xfers, <<>>)
             ELSE Out(s, Err("RegisterAddressMustBe16Bit"), <<>>, <<>>)
        ELSE Out(s, Err("BlanksNotAllowedOnDPRegister"), <<>>, <<>>)

\* STLink::write_dap_register
write_dap_register(s, eps, port, addr, value, r) ==
    LET cmd == <<JTAG_COMMAND, JTAG_WRITE_DAP_REG>> \o DapFields(port, addr)
                  \o ValueFields(value)
        w == write(s.handle, eps, cmd, <<>>, 8, r)
    IN  IF DpAddrOk(port, addr)
        THEN IF AddrIs16Bit(addr)
             THEN IF w.res # "Ok" THEN Out(s, WRes(w), w.xfers, <<>>)
                  ELSE Out(s, check_status(w.data), w.xfers, <<>>)
             ELSE Out(s, Err("RegisterAddressMustBe16Bit"), <<>>, <<>>)
        ELSE Out(s, Err("BlanksNotAllowedOnDPRegister"), <<>>, <<>>)

-----------------------------------------------------------------------------
(* Session: STLink::open and STLink::close *)

\* STLink::open, once its three engine steps have run: every result is
\* dropped, a panic in a step unwinds through open
open_finish(idle, ver, volt, topen) ==
    LET st1 == <<Step("device.open", topen), Step("enter_idle", idle.res.tag)>>
        st2 == st1 \o <<Step("get_version", ver.res.tag)>>
        st3 == st2 \o <<Step("get_target_voltage", volt.res.tag)>>
    IN  IF idle.res.tag = "panic" THEN Out(idle.s, Panic, idle.log, st1)
        ELSE IF ver.res.tag = "panic" THEN Out(ver.s, Panic, idle.log \o ver.log, st2)
        ELSE IF volt.res.tag = "panic"
             THEN Out(volt.s, Panic, idle.log \o ver.log \o volt.log, st3)
        ELSE Out(volt.s, Unit, idle.log \o ver.log \o volt.log, st3)

\* self.get_target_voltage() of STLink::open
open_after_version(idle, ver, eps, topen, t) ==
    open_finish(idle, ver, get_target_voltage(ver.s, eps, t), topen)

\* self.get_version() of STLink::open
open_after_idle(idle, eps, topen, v1, v2, t) ==
    open_after_version(idle, get_version(idle.s, eps, v1, v2), eps, topen, t)

\* STLink::open after self.device.open() has returned topen
stlink_open_rest(s, eps, topen, i1, i2, v1, v2, t) ==
    open_after_idle(enter_idle(s, eps, i1, i2), eps, topen, v1, v2, t)

\* STLink::close, once enter_idle has run: its result is dropped
close_after_idle(idle) ==
    LET st == <<Step("enter_idle", idle.res.tag)>>
    IN  IF idle.res.tag = "panic" THEN Out(idle.s, Panic, idle.log, st)
        ELSE Out(transport_close(idle.s), Unit, idle.log,
                 st \o <<Step("device.close", "Unit")>>)

\* STLink::close
stlink_close(s, eps, i1, i2) == close_after_idle(enter_idle(s, eps, i1, i2))

-----------------------------------------------------------------------------
(* Inputs *)

\* the little-endian bytes of a 32-bit value
LE32(x) == <<Byte32(x, 0), Byte32(x, 1), Byte32(x, 2), Byte32(x, 3)>>

Pids == {14152, 14155}

AllEps == {1, 2, 129, 130, 131}
EpSets == {AllEps, AllEps \ {1, 2}, AllEps \ {129}, AllEps \ {130, 131}}

Dev(o, c, g, d, e) == [open |-> o, claim |-> c, config |-> g, descr |-> d, eps |-> e]
Devices ==
    {Dev(FALSE, FALSE, FALSE, FALSE, {})}
    \cup {Dev(TRUE, TRUE, FALSE, TRUE, AllEps), Dev(TRUE, TRUE, TRUE, FALSE, AllEps)}
    \cup {Dev(TRUE, TRUE, TRUE, TRUE, e) : e \in EpSets}
    \cup {Dev(TRUE, FALSE, TRUE, TRUE, e) : e \in {AllEps, AllEps \ {1, 2}}}

\* answers to GET_CURRENT_MODE and to the mode-exit command
ModeReplies ==
    {Reply(<<m, 0>>) : m \in {DEV_DFU_MODE, DEV_JTAG_MODE, DEV_SWIM_MODE, "DEV_MASS_MODE"}}
    \cup {Fail("cmd_err"), Fail("in_short")}
ExitReplies == {Reply(<<>>), Fail("cmd_short")}

\* answers to GET_VERSION: hw version, 6-bit jtag version
VersionWord(hw, jv) == hw * 2^HW_VERSION_SHIFT + jv * 2^JTAG_VERSION_SHIFT + 7
VersionReply(hw, jv) ==
    Reply(<<VersionWord(hw, jv) % U8, Shr(VersionWord(hw, jv), 8)>> \o Zeros(10))
VersionReplies ==
    {VersionReply(2, j) : j \in {0, 23, 25, 28}}
    \cup {VersionReply(3, j) : j \in {0, 25}}
    \cup {Fail("in_err")}
\* answers to GET_VERSION_EXT
ExtReply(v) == Reply(LE32(v) \o Zeros(8))
ExtReplies ==
    {ExtReply(v) : v \in {W32(0), W32(23), W32(26), <<28, 3>>}} \cup {Fail("cmd_err")}

\* answers to GET_TARGET_VOLTAGE
VoltageReplies ==
    {Reply(LE32(W32(1000)) \o LE32(W32(600))), Reply(LE32(W32(0)) \o LE32(W32(600))),
     Fail("in_err")}

\* answers to a command with a 2-byte status
StatusReplies == {Reply(<<JtagOk, 0>>), Reply(<<JtagUnknownError, 0>>), Fail("cmd_err")}

ApSels == {0, 1}

\* memory requests: the sizes, and (address, size) pairs
Sizes ==
    {0, 1, 2, 4, 256, MAXIMUM_TRANSFER_SIZE + 1}
    \cup {k * MAXIMUM_TRANSFER_SIZE : k \in 1..MaxBlocks}
Requests ==
    {<<W32(4096), n>> : n \in Sizes}
    \cup {<<W32(4097), 4>>, <<W32(4098), 4>>,
          <<<<U16 - 1, U16 - MAXIMUM_TRANSFER_SIZE>>, MAXIMUM_TRANSFER_SIZE>>}
\* the caller's data of a write of n bytes
Data(n) == [i \in 1..n |-> (i * 7) % U8]

\* answers to the status query of a chunk
LastStatus(status, fault_address) ==
    Reply(<<status, 0, 0, 0>> \o LE32(fault_address) \o Zeros(4))
FaultCases ==
    {<<JtagUnknownError, W32(4112)>>, <<SwdDpFault, W32(4112)>>, <<SwdApFault, W32(4112)>>,
     <<SwdApFault, W32(8192)>>}
Script(at, x, q) == [at |-> at, x |-> x, q |-> q]
\* the number of chunks of a transfer of n bytes that runs to its end
Chunks(n) == (n + MAXIMUM_TRANSFER_SIZE - 1) \div MAXIMUM_TRANSFER_SIZE
\* the scripts for a transfer of n bytes
Scripts(n) ==
    {Script(0, Reply(<<>>), Plain)}
    \cup {Script(k, x, Plain) : k \in 1..Chunks(n), x \in {Fail("cmd_err"), Fail("out_short")}}
    \cup {Script(k, Reply(<<>>), q) : k \in 1..Chunks(n),
            q \in {Fail("in_err"), LastStatus(JtagOk, W32(0))}
                  \cup {LastStatus(f[1], f[2]) : f \in FaultCases}}

\* register requests: the port (the debug port or an access port) and the
\* address; 0x04 and 0x10 differ in which nibble is set, 0x10000 and 0x10010
\* do not fit in 16 bits
Ports == {DP_PORT, 1}
RegAddrs == {W32(0), W32(4), W32(16), W32(4660), <<1, 0>>, <<1, 16>>}
\* the value written: 0x12345678
RegValues == {<<4660, 22136>>}
\* answers to a register command: 8 bytes, the status in byte 0
RegReplies ==
    {Reply(<<JtagOk, 0, 0, 0, 1, 2, 3, 4>>), Reply(<<JtagUnknownError, 0, 0, 0, 0, 0, 0, 0>>),
     Fail("cmd_err")}

\* a logical command of n bytes handed to the transport's write(): no byte of
\* it is zero
CmdBytes(n) == [i \in 1..n |-> 160 + i]
\* the data phases of a direct write(): the bytes to send and the number of
\* bytes to receive
WritePhases == {<<<<>>, 0>>, <<<<17, 18>>, 0>>, <<<<>>, 2>>, <<<<17, 18>>, 2>>}
\* what the device does during a direct write()
WriteReplies ==
    {[fail |-> f, err |-> "Timeout", data |-> <<33, 34>>] :
        f \in {"none", "cmd_err", "cmd_short", "out_err", "out_short", "in_err", "in_short"}}
\* direct calls of write(): <<command length, bytes to send, bytes to receive,
\* what the device does>>.  Every command length with a device that does as
\* asked, and every mix of phases and failures with a command of two bytes.
WriteCalls ==
    {<<n, <<>>, 0, Reply(<<>>)>> : n \in 0..(CMD_LEN + 1)}
    \cup {<<2, ph[1], ph[2], r>> : ph \in WritePhases, r \in WriteReplies}

-----------------------------------------------------------------------------
(* State machine *)

OpRec(name, addr, size, ap, proto) ==
    [name |-> name, addr |-> addr, size |-> size, ap |-> ap, proto |-> proto]

NoOp == OpRec("none", W32(0), 0, 0, "none")

\* the record of a register access: port, address and, for a write, the value
DapRec(name, port, addr, value) ==
    [name |-> name, addr |-> addr, size |-> 0, ap |-> 0, proto |-> "none",
     port |-> port, value |-> value]

Cur == St(device_handle, claimed, hw_version, jtag_version, protocol)
Eps == Endpoints(pid)

\* STLink::new over STLinkUSBDevice::new
Init ==
    /\ pid \in Pids
    /\ pc = "ready"
    /\ caller = "none"
    /\ device_handle = FALSE
    /\ claimed = FALSE
    /\ hw_version = 0
    /\ jtag_version = W32(0)
    /\ protocol = "Swd"
    /\ stale = 0
    /\ flushRes = "none"
    /\ op = NoOp
    /\ result = Ok
    /\ log = <<>>
    /\ steps = <<>>

SetState(s) ==
    /\ device_handle' = s.handle
    /\ claimed' = s.claimed
    /\ hw_version' = s.hw
    /\ jtag_version' = s.jtag
    /\ protocol' = s.proto

\* a method that ran to its end (or panicked): o is what it did
Done(o, rec) ==
    /\ SetState(o.s)
    /\ op' = rec
    /\ result' = o.res
    /\ log' = o.log
    /\ steps' = o.steps
    /\ pc' = IF o.res.tag = "panic" THEN "aborted" ELSE "returned"

Call(o, rec) ==
    /\ pc = "ready"
    /\ Done(o, rec)
    /\ UNCHANGED <<pid, caller, stale, flushRes>>

\* the caller has taken the result of the last call; the record of the call is
\* cleared for the next one
Return ==
    /\ pc = "returned"
    /\ pc' = "ready"
    /\ op' = NoOp
    /\ result' = Ok
    /\ log' = <<>>
    /\ steps' = <<>>
    /\ UNCHANGED <<pid, caller, device_handle, claimed, hw_version, jtag_version,
                   protocol, stale, flushRes>>

\* a Transport open that reached flush_rx
EnterFlush(s, who, rec, n) ==
    /\ SetState(s)
    /\ op' = rec
    /\ result' = Res("pending", W32(0), 0, <<>>)
    /\ log' = <<>>
    /\ steps' = <<>>
    /\ pc' = "flush_read"
    /\ caller' = who
    /\ stale' = n
    /\ flushRes' = "none"
    /\ UNCHANGED pid

\* STLinkUSBDevice::open called on its own
DeviceOpen ==
    /\ pc = "ready"
    /\ \E d \in Devices :
        LET t == transport_open(Cur, pid, d)
            rec == OpRec("device.open", W32(0), 0, 0, "none")
        IN  IF t.res = "flush"
            THEN \E n \in 0..MaxStale : EnterFlush(t.s, "device", rec, n)
            ELSE /\ Done(Out(t.s, Err(t.res), <<>>, <<>>), rec)
                 /\ UNCHANGED <<pid, caller, stale, flushRes>>

\* STLinkUSBDevice::close called on its own
DeviceClose ==
    Call(Out(transport_close(Cur), Unit, <<>>, <<>>), OpRec("device.close", W32(0), 0, 0, "none"))

\* STLinkUSBDevice::write called on its own.  The record keeps the length of
\* the command (size), of write_data (ap) and of read_data (addr), and the
\* phase the device fails (proto).
DeviceWrite ==
    \E c \in WriteCalls :
        LET w == write(device_handle, Eps, CmdBytes(c[1]), c[2], c[3], c[4])
        IN  Call(Out(Cur, IF w.res = "Ok" THEN Res("Ok", W32(0), 0, w.data) ELSE WRes(w),
                     w.xfers, <<>>),
                 OpRec("device.write", W32(c[3]), c[1], Len(c[2]), c[4].fail))

\* the replies the steps of STLink::open get
OpenReplies ==
    {<<i1, v1, t>> :
        i1 \in {Reply(<<DEV_DFU_MODE, 0>>), Reply(<<"DEV_MASS_MODE", 0>>)},
        v1 \in {VersionReply(2, 25), VersionReply(3, 0)},
        t \in {Reply(LE32(W32(1000)) \o LE32(W32(600))), Fail("in_err")}}

\* STLink::open
STLinkOpen ==
    /\ pc = "ready"
    /\ \E d \in Devices :
        LET t == transport_open(Cur, pid, d)
            rec == OpRec("open", W32(0), 0, 0, "none")
        IN  IF t.res = "flush"
            THEN \E n \in 0..MaxStale : EnterFlush(t.s, "stlink", rec, n)
            ELSE \E r \in OpenReplies :
                 /\ Done(stlink_open_rest(t.s, Eps, t.res, r[1], Reply(<<>>),
                                          r[2], ExtReply(W32(26)), r[3]), rec)
                 /\ UNCHANGED <<pid, caller, stale, flushRes>>

\* flush_rx: one read(1000, 1 ms) of the loop
FlushRead ==
    /\ pc = "flush_read"
    /\ \E dev \in (IF stale > 0 THEN {"data", "Timeout"} ELSE {"Timeout"}) :
        /\ flushRes' = read(device_handle, dev)
        /\ stale' = IF dev = "data" THEN stale - 1 ELSE stale
    /\ pc' = "flush_check"
    /\ UNCHANGED <<pid, caller, device_handle, claimed, hw_version, jtag_version,
                   protocol, op, result, log, steps>>

\* flush_rx: the loop's test of what read() returned; on Err(Timeout) the loop
\* ends and open() returns Ok(()) to its caller
FlushCheck ==
    /\ pc = "flush_check"
    /\ IF flushRes = "Timeout"
       THEN IF caller = "stlink"
            THEN \E r \in OpenReplies :
                    Done(stlink_open_rest(Cur, Eps, "Ok", r[1], Reply(<<>>),
                                          r[2], ExtReply(W32(26)), r[3]), op)
            ELSE Done(Out(Cur, Ok, <<>>, <<>>), op)
       ELSE /\ pc' = "flush_read"
            /\ UNCHANGED <<device_handle, claimed, hw_version, jtag_version,
                           protocol, op, result, log, steps>>
    /\ UNCHANGED <<pid, caller, stale, flushRes>>

\* STLink::close
STLinkClose ==
    \E i1 \in {Reply(<<DEV_JTAG_MODE, 0>>), Reply(<<"DEV_MASS_MODE", 0>>), Fail("cmd_err")} :
        Call(stlink_close(Cur, Eps, i1, Reply(<<>>)), OpRec("close", W32(0), 0, 0, "none"))

EnterIdle ==
    \E r1 \in ModeReplies, r2 \in ExitReplies :
        Call(enter_idle(Cur, Eps, r1, r2), OpRec("enter_idle", W32(0), 0, 0, "none"))

GetVersion ==
    \E r1 \in VersionReplies, r2 \in ExtReplies :
        Call(get_version(Cur, Eps, r1, r2), OpRec("get_version", W32(0), 0, 0, "none"))

GetTargetVoltage ==
    \E r \in VoltageReplies :
        Call(get_target_voltage(Cur, Eps, r), OpRec("get_target_voltage", W32(0), 0, 0, "none"))

EnterDebug ==
    \E p \in WireProtocol,
       r1 \in {Reply(<<DEV_JTAG_MODE, 0>>), Reply(<<"DEV_MASS_MODE", 0>>), Fail("cmd_err")},
       r3 \in StatusReplies :
        Call(enter_debug(Cur, Eps, p, r1, Reply(<<>>), r3), OpRec("enter_debug", W32(0), 0, 0, p))

OpenAp ==
    \E a \in ApSels, r \in StatusReplies :
        Call(open_ap(Cur, Eps, a, r), OpRec("open_ap", W32(0), 0, a, "none"))

CloseAp ==
    \E a \in ApSels, r \in StatusReplies :
        Call(close_ap(Cur, Eps, a, r), OpRec("close_ap", W32(0), 0, a, "none"))

ReadMem32 ==
    \E rq \in Requests, chk \in BOOLEAN : \E sc \in Scripts(rq[2]) :
        Call(read_mem32(Cur, Eps, rq[1], rq[2], 0, sc, chk),
             OpRec("read_mem32", rq[1], rq[2], 0, "none"))

WriteMem32 ==
    \E rq \in Requests, chk \in BOOLEAN : \E sc \in Scripts(rq[2]) :
        Call(write_mem32(Cur, Eps, rq[1], Data(rq[2]), 0, sc, chk),
             OpRec("write_mem32", rq[1], rq[2], 0, "none"))

ReadMem16 ==
    \E rq \in Requests, chk \in BOOLEAN : \E sc \in Scripts(rq[2]) :
        Call(read_mem16(Cur, Eps, rq[1], rq[2], 0, sc, chk),
             OpRec("read_mem16", rq[1], rq[2], 0, "none"))

WriteMem16 ==
    \E rq \in Requests, chk \in BOOLEAN : \E sc \in Scripts(rq[2]) :
        Call(write_mem16(Cur, Eps, rq[1], Data(rq[2]), 0, sc, chk),
             OpRec("write_mem16", rq[1], rq[2], 0, "none"))

ReadMem8 ==
    \E rq \in Requests, chk \in BOOLEAN : \E sc \in Scripts(rq[2]) :
        Call(read_mem8(Cur, Eps, rq[1], rq[2], 0, sc, chk),
             OpRec("read_mem8", rq[1], rq[2], 0, "none"))

WriteMem8 ==
    \E rq \in Requests, chk \in BOOLEAN : \E sc \in Scripts(rq[2]) :
        Call(write_mem8(Cur, Eps, rq[1], Data(rq[2]), 0, sc, chk),
             OpRec("write_mem8", rq[1], rq[2], 0, "none"))

ReadDapRegister ==
    \E port \in Ports, addr \in RegAddrs, r \in RegReplies :
        Call(read_dap_register(Cur, Eps, port, addr, r),
             DapRec("read_dap_register", port, addr, W32(0)))

WriteDapRegister ==
    \E port \in Ports, addr \in RegAddrs, value \in RegValues, r \in RegReplies :
        Call(write_dap_register(Cur, Eps, port, addr, value, r),
             DapRec("write_dap_register", port, addr, value))

Next ==
    \/ Return
    \/ DeviceOpen
    \/ DeviceClose
    \/ DeviceWrite
    \/ STLinkOpen
    \/ FlushRead
    \/ FlushCheck
    \/ STLinkClose
    \/ EnterIdle
    \/ GetVersion
    \/ GetTargetVoltage
    \/ EnterDebug
    \/ OpenAp
    \/ CloseAp
    \/ ReadMem32
    \/ WriteMem32
    \/ ReadMem16
    \/ WriteMem16
    \/ ReadMem8
    \/ WriteMem8
    \/ ReadDapRegister
    \/ WriteDapRegister

Spec == Init /\ [][Next]_vars

\* the loop of flush_rx keeps running: a blocking read returns, and its result
\* is tested
FairSpec == Spec /\ WF_vars(FlushRead) /\ WF_vars(FlushCheck)

-----------------------------------------------------------------------------
(* The byte decoders of common.rs on their own: a value is laid out in bytes
   the way the register commands lay out their fields, and decoded again *)

\* 16-bit values, and the 32-bit values made of two of them
Halves == {0, 1, 66, 255, 256, 4660, 16896, 32768, 65535}
Words == {<<h, l>> : h \in Halves, l \in Halves}

CodecRec(name, value) ==
    [name |-> name, addr |-> W32(0), size |-> 0, ap |-> 0, proto |-> "none",
     value |-> value]

CodecInit ==
    /\ pid = 14152
    /\ pc = "ready"
    /\ caller = "none"
    /\ device_handle = FALSE
    /\ claimed = FALSE
    /\ hw_version = 0
    /\ jtag_version = W32(0)
    /\ protocol = "Swd"
    /\ stale = 0
    /\ flushRes = "none"
    /\ op \in {CodecRec("u32", v) : v \in Words} \cup {CodecRec("u16", <<0, h>>) : h \in Halves}
    /\ result = Ok
    /\ log = <<>>
    /\ steps = <<>>

\* the bytes of the value, lowest first: the value field of write_dap_register
\* for 32 bits, the port field of both register commands for 16 bits
EncodeValue ==
    /\ pc = "ready"
    /\ pc' = "encoded"
    /\ log' = IF op.name = "u32" THEN ValueFields(op.value)
              ELSE SubSeq(DapFields(op.value[2], W32(0)), 1, 2)
    /\ UNCHANGED <<pid, caller, device_handle, claimed, hw_version, jtag_version,
                   protocol, stale, flushRes, op, result, steps>>

\* to_u32 / to_u16 of those bytes
DecodeBytes ==
    /\ pc = "encoded"
    /\ pc' = "returned"
    /\ result' = IF op.name = "u32" THEN Res("Ok", to_u32(log), 0, <<>>)
                 ELSE Res("Ok", <<0, to_u16(log)>>, 0, <<>>)
    /\ UNCHANGED <<pid, caller, device_handle, claimed, hw_version, jtag_version,
                   protocol, stale, flushRes, op, log, steps>>

CodecNext ==
    \/ EncodeValue
    \/ DecodeBytes

CodecSpec == CodecInit /\ [][CodecNext]_vars

-----------------------------------------------------------------------------
(* What the properties read from the record of the last call *)

MemOps == {"read_mem32", "write_mem32", "read_mem16", "write_mem16", "read_mem8", "write_mem8"}
\* the access width of a memory operation, in bytes
WidthOf(name) ==
    IF name \in {"read_mem32", "write_mem32"} THEN 4
    ELSE IF name \in {"read_mem16", "write_mem16"} THEN 2 ELSE 1
\* the request's address and size are multiples of the width (2^16 is one)
RequestAligned == op.addr[2] % WidthOf(op.name) = 0 /\ op.size % WidthOf(op.name) = 0
\* the call has returned to its caller (it did not panic, it is not in flush_rx)
Returned == pc = "returned"
\* the call is over, by a return or by a panic
Over == pc \in {"returned", "aborted"}

\* the command-phase transfers of the log, and those that carry a chunk
IsCmd(x) == x.phase = "cmd"
IsChunkCmd(x) == x.phase = "cmd" /\ x.data[1] = JTAG_COMMAND /\ x.data[2] # JTAG_GETLASTRWSTATUS2
ChunkCmds == SelectSeq(log, IsChunkCmd)
CmdsOf(opcode) == SelectSeq(log, LAMBDA x : x.phase = "cmd" /\ x.data[1] = opcode)

-----------------------------------------------------------------------------
(* C1 *)

\* C1: a 16- or 32-bit memory read or write whose address or byte count is not
\* a multiple of the width fails with the alignment error and has performed no
\* bulk transfer, whatever the recorded protocol version and handle state.
C1_MisalignedRejected ==
    (Over /\ op.name \in MemOps /\ WidthOf(op.name) > 1 /\ ~RequestAligned)
        => (result.tag = "DataAlignmentError" /\ log = <<>>)

\* a misaligned 16-bit write was rejected on a probe whose firmware has no
\* 16-bit transfers
C1_Witness ==
    /\ op.name = "write_mem16" /\ op.size = 1
    /\ jtag_version = W32(25)
    /\ result.tag = "DataAlignmentError"

-----------------------------------------------------------------------------
(* C2 *)

\* the size of chunk k (from 1) of a transfer of n bytes
ChunkSize(n, k) == Min(n - MAXIMUM_TRANSFER_SIZE * (k - 1), MAXIMUM_TRANSFER_SIZE)
\* the address of chunk k (from 1) of a transfer from base
ChunkAddr(base, k) == Add32(base, W32(MAXIMUM_TRANSFER_SIZE * (k - 1))).v

\* C2: a memory transfer of N bytes that returns success has issued
\* ceil(N/1024) chunk commands, and the k-th carries the address
\* base + 1024*(k-1) and the size min(remaining, 1024) in its little-endian
\* address and size fields.
C2_ChunkCommands ==
    (Returned /\ op.name \in MemOps /\ result.tag = "Ok")
        => /\ Len(ChunkCmds) = (op.size + MAXIMUM_TRANSFER_SIZE - 1) \div MAXIMUM_TRANSFER_SIZE
           /\ \A k \in 1..Len(ChunkCmds) :
                /\ SubSeq(ChunkCmds[k].data, 3, 6) = LE32(ChunkAddr(op.addr, k))
                /\ ChunkCmds[k].data[7] = ChunkSize(op.size, k) % U8
                /\ ChunkCmds[k].data[8] = ChunkSize(op.size, k) \div U8

-----------------------------------------------------------------------------
(* C3 *)

\* the status query of the last chunk was answered, and with a fault code
FaultReported ==
    /\ Over /\ op.name \in MemOps /\ Len(log) > 0
    /\ log[Len(log)].phase = "in" /\ Len(log[Len(log)].data) = 12
    /\ log[Len(log)].data[1] \in {JtagUnknownError, SwdApFault, SwdDpFault}
    /\ log[Len(log)].data[2] = 0
\* the fault address of that answer (bytes 4..7), as a number
ReportedFaultAddress ==
    LET d == log[Len(log)].data
    IN  d[5] + d[6] * 2^8 + d[7] * 2^16 + d[8] * 2^24
Clip(x, lo, hi) == IF x < lo THEN lo ELSE IF x > hi THEN hi ELSE x

\* C3: when the status check reports a fault, the operation returns
\* TransferFault(fault address, chunk_size - (fault_address - chunk_start)),
\* the count clipped to 0..chunk_size, and does not panic.
C3_FaultCount ==
    (FaultReported /\ op.addr[1] = 0)
        => LET k == Len(ChunkCmds)
               start == op.addr[2] + MAXIMUM_TRANSFER_SIZE * (k - 1)
               size == ChunkSize(op.size, k)
           IN  /\ result.tag = "TransferFault"
               /\ result.a = W32(ReportedFaultAddress)
               /\ result.b = Clip(size - (ReportedFaultAddress - start), 0, size)

-----------------------------------------------------------------------------
(* C4, C5 *)

\* the base version query of a get_version call was answered
BaseAnswered ==
    /\ Over /\ op.name = "get_version" /\ Len(log) >= 2
    /\ log[2].phase = "in" /\ Len(log[2].data) = 12
\* the packed word of that answer and its fields
BaseWord == log[2].data[1] + log[2].data[2] * 2^8
BaseHw == BaseWord \div 2^12
BaseProto == (BaseWord \div 2^6) % 2^6
\* the extended version query of the call was answered
ExtAnswered ==
    /\ BaseAnswered /\ Len(log) = 4
    /\ log[4].phase = "in" /\ Len(log[4].data) = 12
\* bytes 0..3 of that answer, as a 32-bit little-endian value
ExtValue ==
    <<log[4].data[3] + log[4].data[4] * 2^8, log[4].data[1] + log[4].data[2] * 2^8>>

\* C4 as stated: a base answer with protocol version 0 makes get_version fail
\* with the unsupported-protocol error without an extended-version query, for
\* every hardware version.
C4_ZeroProtocolNoExt ==
    (BaseAnswered /\ BaseProto = 0)
        => (result.tag = "JTAGNotSupportedOnProbe" /\ Len(CmdsOf(GET_VERSION_EXT)) = 0)

\* C4, amended: that holds for hardware versions below 3; for hardware
\* version 3 and above the extended query is issued, and the error is
\* returned when the extended answer is 0.
C4_ZeroProtocolNoExtBelowV3 ==
    /\ (BaseAnswered /\ BaseProto = 0 /\ BaseHw < 3)
        => (result.tag = "JTAGNotSupportedOnProbe" /\ Len(CmdsOf(GET_VERSION_EXT)) = 0)
    /\ (BaseAnswered /\ BaseProto = 0 /\ BaseHw >= 3)
        => /\ Len(CmdsOf(GET_VERSION_EXT)) = 1
           /\ ExtAnswered => (result.tag = "JTAGNotSupportedOnProbe" <=> ExtValue = <<0, 0>>)

C4_Witness ==
    /\ BaseAnswered /\ BaseProto = 0 /\ BaseHw = 2
    /\ result.tag = "JTAGNotSupportedOnProbe"

-----------------------------------------------------------------------------
(* C6 *)

\* the next step is a call of one of the named operations
Calls(names) == pc = "ready" /\ pc' \in {"returned", "aborted"} /\ op'.name \in names
\* the recorded protocol version is below n (n < 2^16)
VersionBelow(n) == jtag_version[1] = 0 /\ jtag_version[2] < n
\* the step performs no bulk transfer and leaves the recorded state alone
NoEffect ==
    /\ log' = <<>>
    /\ device_handle' = device_handle /\ claimed' = claimed
    /\ hw_version' = hw_version /\ jtag_version' = jtag_version
    /\ protocol' = protocol

\* C6: open_ap and close_ap on a recorded protocol version below 28 fail with
\* the multi-AP error, and aligned 16-bit reads and writes on a version below
\* 26 fail with the 16-bit error; neither performs a bulk transfer or changes
\* the recorded state.  Version 0 (no get_version yet) is included.
C6_VersionGates ==
    [][ /\ (Calls({"open_ap", "close_ap"}) /\ VersionBelow(MIN_JTAG_VERSION_MULTI_AP))
            => (result'.tag = "JTagDoesNotSupportMultipleAP" /\ NoEffect)
        /\ (Calls({"read_mem16", "write_mem16"}) /\ VersionBelow(MIN_JTAG_VERSION_16BIT_XFER)
              /\ op'.addr[2] % 2 = 0 /\ op'.size % 2 = 0)
            => (result'.tag = "Access16BitNotSupported" /\ NoEffect)
      ]_vars

\* an aligned 16-bit read was refused on firmware 25, which passes the
\* minimum version but has no 16-bit transfers
C6_Witness ==
    /\ op.name = "read_mem16" /\ op.size = 2 /\ jtag_version = W32(25)
    /\ device_handle
    /\ result.tag = "Access16BitNotSupported" /\ log = <<>>

-----------------------------------------------------------------------------
(* C7 *)

\* C7: a Transport open on a closed transport that returns an error leaves
\* the transport closed: no device handle, no claimed interface.
C7_FailedOpenStaysClosed ==
    [][ (/\ pc = "ready" /\ ~device_handle /\ ~claimed
         /\ pc' = "returned" /\ op'.name = "device.open" /\ result'.tag # "Ok")
            => (~device_handle' /\ ~claimed')
      ]_vars

-----------------------------------------------------------------------------
(* C8 *)

\* the results of a step that count as success
StepOk(tag) == tag \in {"Ok", "Unit"}

\* C8: when a step of STLink::open, enter_debug or STLink::close fails, the
\* operation reports a failure to its caller and performs no later step: the
\* failed step is the last one, and enter_debug sends no mode-entry command.
C8_NoSwallowedError ==
    (Returned /\ op.name \in {"open", "enter_debug", "close"})
        => \A i \in 1..Len(steps) :
              ~StepOk(steps[i].res)
                => /\ ~StepOk(result.tag)
                   /\ i = Len(steps)
                   /\ \A j \in 1..Len(log) :
                        ~(IsCmd(log[j]) /\ log[j].data[1] = JTAG_COMMAND
                            /\ log[j].data[2] = JTAG_ENTER2)

-----------------------------------------------------------------------------
(* C9 *)

\* C9: the recorded wire protocol is changed only by an enter_debug whose
\* mode-entry command returned status OK: a call of enter_debug that fails
\* leaves it as it was, and so does every other operation.
C9_ProtocolOnlyOnSuccess ==
    [][ (Calls({"enter_debug"}) /\ result'.tag = "Ok") \/ protocol' = protocol ]_vars

-----------------------------------------------------------------------------
(* C10 *)

InFlush == pc \in {"flush_read", "flush_check"}

\* C10: the RX flush at the end of a Transport open terminates: once the
\* device has no more inbound data every read times out, the loop stops at
\* the first such read, and open() returns.
C10_FlushTerminates == InFlush ~> ~InFlush

-----------------------------------------------------------------------------
(* C11 *)

\* C11: no operation of the engine or the transport aborts: whatever the
\* state of the transport (never opened, failed to open, closed) and whatever
\* the probe answers, every call returns a success or an error value.
C11_NoAbort == pc # "aborted"

-----------------------------------------------------------------------------
(* C12 *)

\* the length of the logical command the engine put in a frame, by its opcode
\* and sub-opcode
EngineCmdLen(frame) ==
    IF frame[1] \in {GET_VERSION, GET_VERSION_EXT, GET_TARGET_VOLTAGE, GET_CURRENT_MODE} THEN 1
    ELSE IF frame[1] \in {DFU_COMMAND, SWIM_COMMAND} THEN 2
    ELSE IF frame[2] \in {JTAG_EXIT, JTAG_GETLASTRWSTATUS2} THEN 2
    ELSE IF frame[2] = JTAG_CLOSE_AP_DBG THEN 3
    ELSE IF frame[2] \in {JTAG_ENTER2, JTAG_INIT_AP} THEN 4
    ELSE IF frame[2] = JTAG_READ_DAP_REG THEN 6
    ELSE IF frame[2] = JTAG_WRITE_DAP_REG THEN 10
    ELSE 9

\* C12: every command-phase transfer carries a frame of exactly 16 bytes: the
\* logical command (0 to 16 bytes when write() is called directly, at most 16
\* bytes when the engine builds it) followed by zero bytes only.
C12_FramePadding ==
    \A i \in 1..Len(log) :
        IsCmd(log[i]) =>
            /\ Len(log[i].data) = 16
            /\ log[i].len = 16
            /\ LET n == IF op.name = "device.write" THEN op.size
                        ELSE EngineCmdLen(log[i].data)
               IN  /\ n <= 16
                   /\ op.name = "device.write"
                        => SubSeq(log[i].data, 1, n) = [k \in 1..n |-> 160 + k]
                   /\ \A k \in (n + 1)..16 : log[i].data[k] = 0

\* write() was called with an empty command and with a full one, and sent a
\* frame for it
C12_Witness ==
    /\ Returned /\ op.name = "device.write" /\ op.size \in {0, 16}
    /\ Len(log) >= 1 /\ IsCmd(log[1])
    /\ result.tag = "Ok"

-----------------------------------------------------------------------------
(* C13 *)

DapOps == {"read_dap_register", "write_dap_register"}
\* the two validation errors of the register operations
DapRejections == {"BlanksNotAllowedOnDPRegister", "RegisterAddressMustBe16Bit"}

\* C13 as stated: a register request is accepted exactly when (the low nibble
\* of addr is zero or the port is not 0xFFFF) and addr is below 2^16; otherwise
\* it fails with the invalid-DP-address error (first rule) or the
\* address-too-wide error (second rule) and performs no bulk transfer.
C13_DapAddressLowNibble ==
    (Over /\ op.name \in DapOps) =>
        LET rule1 == op.addr[2] % 16 = 0 \/ op.port # 65535
            rule2 == op.addr[1] = 0
        IN  /\ ~rule1 => (result.tag = "BlanksNotAllowedOnDPRegister" /\ log = <<>>)
            /\ (rule1 /\ ~rule2) => (result.tag = "RegisterAddressMustBe16Bit" /\ log = <<>>)
            /\ (rule1 /\ rule2) => result.tag \notin DapRejections

\* C13, amended: the first rule is on bits 4..7 of addr (addr & 0xF0), not on
\* its low nibble.
C13_DapAddressBits4To7 ==
    (Over /\ op.name \in DapOps) =>
        LET rule1 == (op.addr[2] \div 16) % 16 = 0 \/ op.port # 65535
            rule2 == op.addr[1] = 0
        IN  /\ ~rule1 => (result.tag = "BlanksNotAllowedOnDPRegister" /\ log = <<>>)
            /\ (rule1 /\ ~rule2) => (result.tag = "RegisterAddressMustBe16Bit" /\ log = <<>>)
            /\ (rule1 /\ rule2) => result.tag \notin DapRejections

\* debug-port register 0x04 was read, and debug-port address 0x10 was refused
C13_Witness ==
    /\ Returned /\ op.name \in DapOps /\ op.port = 65535
    /\ \/ op.addr = <<0, 4>> /\ result.tag = "Ok" /\ Len(log) = 2
       \/ op.addr = <<0, 16>> /\ result.tag = "BlanksNotAllowedOnDPRegister"

-----------------------------------------------------------------------------
(* C14 *)

\* C14: decoding is positional, to_u32 of [b0, b1, b2, b3] is
\* b0 + b1*2^8 + b2*2^16 + b3*2^24 and to_u16 of [b0, b1] is b0 + b1*2^8, and
\* decoding the little-endian bytes of a 16- or 32-bit value gives the value
\* back.
C14_LittleEndianRoundTrip ==
    (pc = "returned" /\ op.name \in {"u16", "u32"}) =>
        /\ result.a = op.value
        /\ result.a[2] = log[1] + log[2] * 256
        /\ op.name = "u32" => result.a[1] = log[3] + log[4] * 256

\* 0x12340042 went through its four bytes and came back
C14_Witness ==
    /\ pc = "returned" /\ op.name = "u32" /\ op.value = <<4660, 66>>
    /\ log = <<66, 0, 52, 18>>
    /\ result.a = <<4660, 66>>

-----------------------------------------------------------------------------
(* C15 *)

\* the voltage query of a get_target_voltage call was answered in full
VoltageAnswered ==
    /\ Over /\ op.name = "get_target_voltage" /\ Len(log) = 2
    /\ log[2].phase = "in" /\ Len(log[2].data) = 8
\* bytes 0..3 of that answer are all zero
Reading0IsZero == \A i \in 1..4 : log[2].data[i] = 0

\* C15: get_target_voltage fails with the division-by-zero error when
\* reading0 of the answer is 0, and returns a number for every other reading0.
C15_VoltageDivisionByZero ==
    VoltageAnswered =>
        /\ Reading0IsZero => result.tag = "VoltageDivisionByZero"
        /\ ~Reading0IsZero => result.tag = "Ok"

-----------------------------------------------------------------------------
(* C16, C17, C18 *)

\* the i-th transfer of the log is an answer to a status query of a memory
\* transfer, and its 16-bit status code (high byte 0)
IsStatusAnswer(i) ==
    /\ log[i].phase = "in" /\ Len(log[i].data) = 12 /\ log[i].data[2] = 0
StatusOf(i) == log[i].data[1]
FaultCodes == {JtagUnknownError, SwdApFault, SwdDpFault}
ClearAttempted ==
    \E j \in 1..Len(steps) : steps[j].name = "clear_sticky_error"

\* C16: when the status check of a chunk finds one of the three fault codes,
\* the sticky-error clear is attempted and the operation then fails with
\* TransferFault; no TransferFault is returned without that attempt.
C16_ClearBeforeFault ==
    (Over /\ op.name \in MemOps) =>
        /\ \A i \in 1..Len(log) :
              (IsStatusAnswer(i) /\ StatusOf(i) \in FaultCodes)
                => (i = Len(log) /\ ClearAttempted /\ result.tag = "TransferFault")
        /\ result.tag = "TransferFault" => ClearAttempted

\* C17: a status check that finds the code OK makes the operation fail with
\* UnknownError; no sticky-error clear is attempted and nothing more is sent.
C17_OkStatusIsUnknownError ==
    (Over /\ op.name \in MemOps) =>
        \A i \in 1..Len(log) :
            (IsStatusAnswer(i) /\ StatusOf(i) = JtagOk)
                => (i = Len(log) /\ result.tag = "UnknownError" /\ ~ClearAttempted)

\* the first chunk of a two-chunk write was answered with OK: one chunk
\* command only, and UnknownError
C17_Witness ==
    /\ Returned /\ op.name = "write_mem8" /\ op.size = 2048
    /\ Len(ChunkCmds) = 1
    /\ IsStatusAnswer(Len(log)) /\ StatusOf(Len(log)) = JtagOk
    /\ result.tag = "UnknownError"

\* C18: a status code that is neither OK nor one of the three fault codes
\* ends the memory operation with an error: nothing more is sent and success
\* is not returned.
C18_UnknownStatusIsError ==
    (Over /\ op.name \in MemOps) =>
        \A i \in 1..Len(log) :
            (IsStatusAnswer(i) /\ StatusOf(i) \notin (FaultCodes \cup {JtagOk}))
                => (i = Len(log) /\ result.tag # "Ok")

-----------------------------------------------------------------------------
(* C19, C20 *)

\* the opcode of the chunk commands of a memory operation
OpcodeOf(name) ==
    IF name = "read_mem32" THEN JTAG_READMEM_32BIT
    ELSE IF name = "write_mem32" THEN JTAG_WRITEMEM_32BIT
    ELSE IF name = "read_mem16" THEN JTAG_READMEM_16BIT
    ELSE IF name = "write_mem16" THEN JTAG_WRITEMEM_16BIT
    ELSE IF name = "read_mem8" THEN JTAG_READMEM_8BIT
    ELSE JTAG_WRITEMEM_8BIT

\* C19: the k-th chunk command of a memory operation is the 9 bytes
\* [JTAG_COMMAND, opcode, address bytes 0..3, size bytes 0..1, apsel] with the
\* little-endian bytes of the chunk's start address and size, so the commands
\* of two chunks of one transfer differ.
C19_MemoryCommandLayout ==
    (Over /\ op.name \in MemOps) =>
        /\ \A k \in 1..Len(ChunkCmds) :
              SubSeq(ChunkCmds[k].data, 1, 9)
                = <<JTAG_COMMAND, OpcodeOf(op.name)>>
                    \o LE32(ChunkAddr(op.addr, k))
                    \o <<ChunkSize(op.size, k) % 256, ChunkSize(op.size, k) \div 256, op.ap>>
        /\ \A k \in 1..Len(ChunkCmds), m \in 1..Len(ChunkCmds) :
              k # m => ChunkCmds[k].data # ChunkCmds[m].data

\* the place in the log of the k-th chunk command
ChunkIndex(k) ==
    CHOOSE i \in 1..Len(log) :
        /\ IsChunkCmd(log[i])
        /\ Cardinality({j \in 1..i : IsChunkCmd(log[j])}) = k

\* C20: in a successful write every chunk command is followed by a data-out
\* phase with that chunk's slice of the caller's data; in a successful read
\* every chunk command is followed by a data-in phase of chunk-size bytes,
\* and the N bytes returned are the bytes received, in order.
C20_ChunkPayloads ==
    (Returned /\ op.name \in MemOps /\ result.tag = "Ok") =>
        /\ \A k \in 1..Len(ChunkCmds) :
              LET i == ChunkIndex(k)
                  from == MAXIMUM_TRANSFER_SIZE * (k - 1)
                  n == ChunkSize(op.size, k)
              IN  /\ i < Len(log)
                  /\ IF op.name \in {"write_mem32", "write_mem16", "write_mem8"}
                     THEN /\ log[i + 1].phase = "out"
                          /\ log[i + 1].data = [j \in 1..n |-> ((from + j) * 7) % 256]
                     ELSE /\ log[i + 1].phase = "in"
                          /\ log[i + 1].len = n
                          /\ Len(log[i + 1].data) = n
                          /\ SubSeq(result.v, from + 1, from + n) = log[i + 1].data
        /\ op.name \in {"read_mem32", "read_mem16", "read_mem8"}
             => Len(result.v) = op.size

-----------------------------------------------------------------------------
(* C21 *)

\* the command-phase transfers of the log, in order
Cmds == SelectSeq(log, IsCmd)
IsStatusQuery(x) == x.data[1] = JTAG_COMMAND /\ x.data[2] = JTAG_GETLASTRWSTATUS2

\* C21: in a memory transfer chunk commands and status queries alternate,
\* chunk command first: each chunk command is followed by one status query
\* before the next chunk command, and is left without one only when the call
\* ends there without success.  A fault answer, or a data-in phase that failed,
\* is the last transfer of the call.  No chunk is issued twice: there are at
\* most ceil(N/1024) chunk commands and the k-th write chunk carries the k-th
\* slice of the data.
C21_StatusAfterEachChunk ==
    (Over /\ op.name \in MemOps) =>
        /\ \A j \in 1..Len(Cmds) :
              IF j % 2 = 1 THEN IsChunkCmd(Cmds[j]) ELSE IsStatusQuery(Cmds[j])
        /\ Len(Cmds) % 2 = 1 => result.tag # "Ok"
        /\ \A i \in 1..Len(log) :
              /\ (IsStatusAnswer(i) /\ StatusOf(i) \in FaultCodes) => i = Len(log)
              /\ (log[i].phase = "in" /\ Len(log[i].data) # log[i].len) => i = Len(log)
        /\ Len(ChunkCmds) <= (op.size + MAXIMUM_TRANSFER_SIZE - 1) \div MAXIMUM_TRANSFER_SIZE
        /\ \A k \in 1..Len(ChunkCmds) :
              LET i == ChunkIndex(k)
                  from == MAXIMUM_TRANSFER_SIZE * (k - 1)
              IN  (i < Len(log) /\ log[i + 1].phase = "out")
                    => log[i + 1].data
                         = [j \in 1..ChunkSize(op.size, k) |-> ((from + j) * 7) % 256]

\* the first chunk of a two-chunk read was answered with a debug-port fault:
\* one chunk command, one status query, and the call is over
C21_Witness ==
    /\ Over /\ op.name = "read_mem8" /\ op.size = 2048
    /\ Len(ChunkCmds) = 1 /\ Len(Cmds) = 2
    /\ IsStatusAnswer(Len(log)) /\ StatusOf(Len(log)) = SwdDpFault

-----------------------------------------------------------------------------
(* C22 *)

IsModeEntry(x) == IsCmd(x) /\ x.data[1] = JTAG_COMMAND /\ x.data[2] = JTAG_ENTER2

\* C22: enter_debug(p) sends the current-mode query of the idle step first
\* and at most one mode-entry command after it, and the parameter of that
\* command is the SWD-entry parameter when p is SWD and the JTAG-entry
\* parameter when p is JTAG.
C22_EnterDebugParameter ==
    (Over /\ op.name = "enter_debug") =>
        /\ Len(SelectSeq(log, IsModeEntry)) <= 1
        /\ \A i \in 1..Len(log) :
              IsModeEntry(log[i]) =>
                /\ i > 1 /\ IsCmd(log[1]) /\ log[1].data[1] = GET_CURRENT_MODE
                /\ log[i].data[3] = IF op.proto = "Swd" THEN JTAG_ENTER_SWD
                                    ELSE JTAG_ENTER_JTAG_NO_CORE_RESET

-----------------------------------------------------------------------------
(* C23 *)

\* the current-mode query of an enter_idle call was answered, and the mode
ModeAnswered == Len(log) >= 2 /\ log[2].phase = "in" /\ Len(log[2].data) = 2
ReportedMode == log[2].data[1]
\* the exit command of a mode
ExitOf(mode) ==
    IF mode = DEV_DFU_MODE THEN <<DFU_COMMAND, DFU_EXIT>>
    ELSE IF mode = DEV_JTAG_MODE THEN <<JTAG_COMMAND, JTAG_EXIT>>
    ELSE <<SWIM_COMMAND, SWIM_EXIT>>

\* C23: enter_idle on a transport that holds a handle sends exactly one
\* current-mode query, first.  When the answer is DFU, JTAG or SWIM it sends
\* the exit command of that mode and nothing else, and returns the result of
\* that write; for any other answer it sends nothing more and fails with
\* UnknownMode; when the query fails it sends nothing more and returns the
\* transport error.
C23_EnterIdleDispatch ==
    (Over /\ op.name = "enter_idle") =>
        /\ device_handle => Len(log) >= 1
        /\ Len(log) >= 1 =>
              /\ IsCmd(log[1]) /\ log[1].data[1] = GET_CURRENT_MODE
              /\ Len(CmdsOf(GET_CURRENT_MODE)) = 1
        /\ (ModeAnswered /\ ReportedMode \in {DEV_DFU_MODE, DEV_JTAG_MODE, DEV_SWIM_MODE}) =>
              /\ Len(log) = 3 /\ IsCmd(log[3])
              /\ SubSeq(log[3].data, 1, 2) = ExitOf(ReportedMode)
              /\ result.tag \in {"Ok", "USB"}
        /\ (ModeAnswered /\ ReportedMode \notin {DEV_DFU_MODE, DEV_JTAG_MODE, DEV_SWIM_MODE}) =>
              /\ Len(log) = 2
              /\ result.tag = "UnknownMode"
        /\ (Len(log) >= 1 /\ ~ModeAnswered) =>
              /\ Len(Cmds) = 1
              /\ result.tag = "USB"

\* a probe in JTAG mode was sent the JTAG exit
C23_Witness ==
    /\ Returned /\ op.name = "enter_idle"
    /\ ModeAnswered /\ ReportedMode = DEV_JTAG_MODE
    /\ Len(log) = 3 /\ SubSeq(log[3].data, 1, 2) = <<JTAG_COMMAND, JTAG_EXIT>>
    /\ result.tag = "Ok"

-----------------------------------------------------------------------------
(* C24 *)

\* the phases a write() with these arguments performs when none fails
PhasesAsked ==
    <<"cmd">> \o (IF op.ap > 0 THEN <<"out">> ELSE <<>>)
             \o (IF op.addr[2] > 0 THEN <<"in">> ELSE <<>>)
\* the phases it performed
PhasesDone == [i \in 1..Len(log) |-> log[i].phase]
\* the phase the device fails, when that phase is one of those asked for
FailedPhase ==
    IF op.proto \in {"cmd_err", "cmd_short"} THEN "cmd"
    ELSE IF op.proto \in {"out_err", "out_short"} /\ op.ap > 0 THEN "out"
    ELSE IF op.proto \in {"in_err", "in_short"} /\ op.addr[2] > 0 THEN "in"
    ELSE "none"

\* C24: a write() on a transport that holds a handle performs the command
\* phase, the data-out phase if write_data is not empty and the data-in phase
\* if read_data is not empty, in this order.  The phase that fails is the last
\* one performed and the call returns its error, the I/O error for a wrong
\* byte count; with no failing phase all phases are performed and the call
\* succeeds.
C24_WritePhases ==
    (Over /\ op.name = "device.write" /\ op.size <= CMD_LEN /\ device_handle) =>
        /\ Len(log) >= 1 /\ Len(log) <= Len(PhasesAsked)
        /\ PhasesDone = SubSeq(PhasesAsked, 1, Len(log))
        /\ FailedPhase = "none" => (PhasesDone = PhasesAsked /\ result.tag = "Ok")
        /\ FailedPhase # "none" =>
              /\ log[Len(log)].phase = FailedPhase
              /\ result.tag = "USB"
              /\ op.proto \in {"cmd_short", "out_short", "in_short"} => result.v = <<"Io">>
              /\ op.proto \in {"cmd_err", "out_err", "in_err"} => result.v = <<"Timeout">>

\* the data-out phase of a write() with all three phases failed: the data-in
\* phase was not performed
C24_Witness ==
    /\ Returned /\ op.name = "device.write" /\ op.ap > 0 /\ op.addr[2] > 0
    /\ op.proto = "out_short"
    /\ PhasesDone = <<"cmd", "out">>
    /\ result.tag = "USB"

=============================================================================
